---- MODULE Spec2Model ----
(***************************************************************************)
(* Shell-session execution service: the `bash` tool (executor), the       *)
(* `process` tool (controller) and the session registry they share.       *)
(*                                                                         *)
(* One execute call creates one session; the call and its session are     *)
(* named by the session id.  Output bytes are modelled as the integers    *)
(* 1, 2, 3, ... in the order the OS delivers them (0 is a control byte    *)
(* the sanitizer removes), so that order, loss and duplication of bytes   *)
(* are visible in the state.                                               *)
(***************************************************************************)
EXTENDS Integers, Sequences, FiniteSets, TLC

\* null / undefined where a string or a handle is expected
NULL == "null"
\* null / undefined where a number is expected
NONE == -1

\* session ids drawn by randomUUID()
Ids == {"s1", "s2"}

\* the session the specifications below exercise
Main == {"s1"}

\* bound: bytes one process delivers over its life (output specification)
MaxRecv == 4
\* bound: bytes one process delivers over its life (lifecycle specification)
LifeRecv == 1
\* bound: bytes of one data event
MaxData == 3
\* bound: the wall clock stops advancing here
MaxTime == 2

\* bound: items the process tool delivers to the stdin of one process
MaxWritten == 3

\* bound: characters of the output a log call reads (log specification)
MaxText == 5

\* bound: the slice length that stands for 8 * 1024
MaxChunk == 2
\* bound: the output cap that stands for the clamped PI_BASH_MAX_OUTPUT_CHARS
MaxOutput == 2
\* bound: the length of the tail preview
MaxTail == 1

\* const CHUNK_LIMIT = 8 * 1024, scaled to the model
CHUNK_LIMIT == MaxChunk
\* const DEFAULT_MAX_OUTPUT = clampNumber(env, 30_000, 1_000, 150_000), scaled to the model
DEFAULT_MAX_OUTPUT == MaxOutput
\* the fixed length K of the tail the registry keeps, scaled to the model
TAIL_LIMIT == MaxTail
\* defaultBackgroundMs and defaultTimeoutSec of createBashTool()
DEFAULT_BACKGROUND_MS == 20000
DEFAULT_TIMEOUT_SEC == 1800

VARIABLES
    call,       \* per execute call: the closure state of createBashTool.execute
    session,    \* per session id: the session object
    os,         \* per session id: the child process as the OS sees it
    running,    \* registry: ids in the live set
    finished,   \* registry: ids in the finished set
    deleted,    \* ids removed from the registry by deleteSession or the sweep
    jobTtlMs,   \* registry: retention of finished sessions
    now,        \* wall clock (Date.now())
    ptyModule,  \* the cached outcome of loadPtyModule()
    lastPoll,   \* per sessionId argument (NULL: none given): the last reply of the
                \* process tool (a poll's in full)
    hist        \* per session id: history of appends and drains

vars == <<call, session, os, running, finished, deleted, jobTtlMs, now,
          ptyModule, lastPoll, hist>>

----------------------------------------------------------------------------
(* Pure helpers *)

Min(a, b) == IF a < b THEN a ELSE b
Max(a, b) == IF a > b THEN a ELSE b

Take(s, n) == SubSeq(s, 1, Min(n, Len(s)))
Drop(s, n) == SubSeq(s, Min(n, Len(s)) + 1, Len(s))

RECURSIVE Concat(_)
Concat(ss) == IF ss = <<>> THEN <<>> ELSE Head(ss) \o Concat(Tail(ss))

clampNumber(value, defaultValue, min, max) ==
    IF value = NONE THEN defaultValue ELSE Min(Max(value, min), max)

\* chunkString that walks the input from its end
RECURSIVE chunkStringBackwards(_, _)
chunkStringBackwards(input, limit) ==
    IF Len(input) = 0 THEN <<>>
    ELSE <<Drop(input, Len(input) - Min(limit, Len(input)))>>
            \o chunkStringBackwards(Take(input, Len(input) - Min(limit, Len(input))), limit)

\* chunkString(input, limit): slices of at most `limit` characters, in order
RECURSIVE chunkString(_, _)
chunkString(input, limit) ==
    IF Len(input) = 0 THEN <<>>
    ELSE <<Take(input, limit)>> \o chunkString(Drop(input, limit), limit)

\* sanitizeBinaryOutput: control bytes (0) are removed, the rest keeps its order
sanitizeBinaryOutput(raw) == SelectSeq(raw, LAMBDA b : b # 0)

\* last K characters of the aggregated output
tailOf(text) == Drop(text, Len(text) - Min(TAIL_LIMIT, Len(text)))

\* the characters "\n" and "\r"; every other character of a log is 1
LF == 10
CR == 13

\* text.replace(/\r\n/g, "\n")
RECURSIVE replaceCRLF(_)
replaceCRLF(text) ==
    IF Len(text) < 2 THEN text
    ELSE IF text[1] = CR /\ text[2] = LF
    THEN <<LF>> \o replaceCRLF(SubSeq(text, 3, Len(text)))
    ELSE <<text[1]>> \o replaceCRLF(Tail(text))

\* normalized.split("\n")
RECURSIVE splitLF(_)
splitLF(text) ==
    IF \A i \in 1..Len(text) : text[i] # LF THEN <<text>>
    ELSE LET i == CHOOSE k \in 1..Len(text) :
                        text[k] = LF /\ \A j \in 1..(k - 1) : text[j] # LF
         IN  <<SubSeq(text, 1, i - 1)>> \o splitLF(SubSeq(text, i + 1, Len(text)))

\* lines.join("\n")
RECURSIVE joinLF(_)
joinLF(lines) ==
    IF lines = <<>> THEN <<>>
    ELSE IF Len(lines) = 1 THEN lines[1]
    ELSE lines[1] \o <<LF>> \o joinLF(Tail(lines))

\* lines.slice(start, end) for start >= 0; end = NONE: to the last line
jsSlice(lines, start, end) ==
    LET to == IF end = NONE THEN Len(lines) ELSE Min(end, Len(lines))
    IN  IF start >= to THEN <<>> ELSE SubSeq(lines, start + 1, to)

\* sliceLogLines that reads from `offset` (or 0) whether or not a limit came alone
sliceLogLinesFromStart(text, offset, limit) ==
    IF text = <<>> THEN [slice |-> <<>>, totalLines |-> 0, totalChars |-> 0]
    ELSE
    LET split == splitLF(replaceCRLF(text))
        lines == IF Len(split) > 0 /\ split[Len(split)] = <<>>
                 THEN SubSeq(split, 1, Len(split) - 1) ELSE split
        totalLines == Len(lines)
        start == IF offset # NONE THEN Max(0, offset) ELSE 0
        end == IF limit # NONE THEN start + Max(0, limit) ELSE NONE
    IN  [slice |-> joinLF(jsSlice(lines, start, end)),
         totalLines |-> totalLines, totalChars |-> Len(text)]

\* sliceLogLines(text, offset, limit) on whole numbers (Math.floor is the
\* identity); NONE is an absent offset or limit
sliceLogLines(text, offset, limit) ==
    IF text = <<>> THEN [slice |-> <<>>, totalLines |-> 0, totalChars |-> 0]
    ELSE
    LET split == splitLF(replaceCRLF(text))
        lines == IF Len(split) > 0 /\ split[Len(split)] = <<>>
                 THEN SubSeq(split, 1, Len(split) - 1) ELSE split
        totalLines == Len(lines)
        start0 == IF offset # NONE THEN Max(0, offset) ELSE 0
        start == IF limit # NONE /\ offset = NONE
                 THEN Max(totalLines - Max(0, limit), 0) ELSE start0
        end == IF limit # NONE THEN start + Max(0, limit) ELSE NONE
    IN  [slice |-> joinLF(jsSlice(lines, start, end)),
         totalLines |-> totalLines, totalChars |-> Len(text)]

----------------------------------------------------------------------------
(* Session registry *)

\* appendOutput that never cuts the slice at the cap
appendOutputNoCap(s, stream, chunk) ==
    LET agg == s.aggregated \o chunk
    IN  [s EXCEPT
            !.aggregated = agg,
            !.tail = tailOf(agg),
            !.totalOutputChars = s.totalOutputChars + Len(chunk),
            !.pendingStdout = IF stream = "stdout" THEN Append(@, chunk) ELSE @,
            !.pendingStderr = IF stream = "stderr" THEN Append(@, chunk) ELSE @]

\* appendOutput that counts only the characters it kept
appendOutputCountKept(s, stream, chunk) ==
    LET remaining == s.maxOutputChars - Len(s.aggregated)
        kept      == Take(chunk, Max(remaining, 0))
        agg       == s.aggregated \o kept
    IN  [s EXCEPT
            !.aggregated = agg,
            !.tail = tailOf(agg),
            !.truncated = s.truncated \/ Len(chunk) > remaining,
            !.totalOutputChars = s.totalOutputChars + Len(kept),
            !.pendingStdout = IF stream = "stdout" THEN Append(@, chunk) ELSE @,
            !.pendingStderr = IF stream = "stderr" THEN Append(@, chunk) ELSE @]

\* appendOutput(session, stream, chunk) on the session object s
appendOutput(s, stream, chunk) ==
    LET remaining == s.maxOutputChars - Len(s.aggregated)
        kept      == Take(chunk, Max(remaining, 0))
        agg       == s.aggregated \o kept
    IN  [s EXCEPT
            !.aggregated = agg,
            !.tail = tailOf(agg),
            !.truncated = s.truncated \/ Len(chunk) > remaining,
            !.totalOutputChars = s.totalOutputChars + Len(chunk),
            !.pendingStdout = IF stream = "stdout" THEN Append(@, chunk) ELSE @,
            !.pendingStderr = IF stream = "stderr" THEN Append(@, chunk) ELSE @]

RECURSIVE appendAll(_, _, _)
appendAll(s, stream, chunks) ==
    IF chunks = <<>> THEN s
    ELSE appendAll(appendOutput(s, stream, Head(chunks)), stream, Tail(chunks))

\* drainSession(session): the pair it returns, and the session afterwards
drainOut(s) == [stdout |-> Concat(s.pendingStdout), stderr |-> Concat(s.pendingStderr)]
drainSession(s) == [s EXCEPT !.pendingStdout = <<>>, !.pendingStderr = <<>>]

\* markBackgrounded(session)
markBackgrounded(s) == [s EXCEPT !.backgrounded = TRUE]

\* markExited that stamps endedAt on every call
markExitedRestamps(s, code, sig, status) ==
    [s EXCEPT
        !.exited = TRUE,
        !.exitCode = code,
        !.exitSignal = sig,
        !.status = status,
        !.endedAt = now]

\* markExited(session, exitCode, exitSignal, status): the session afterwards
markExited(s, code, sig, status) ==
    [s EXCEPT
        !.exited = TRUE,
        !.exitCode = code,
        !.exitSignal = sig,
        !.status = status,
        !.endedAt = IF s.exited THEN @ ELSE now]

\* markExited that drops the session from the live set without storing it
finishedNoMove(id) == finished

\* markExited: the live and the finished set afterwards (moved on the first call only)
runningAfterExit(id) == running \ {id}
finishedAfterExit(id) ==
    IF session[id].exited THEN finished ELSE finished \cup {id}

----------------------------------------------------------------------------
(* Initial state *)

NoSession ==
    [ created |-> FALSE, stdinMode |-> NULL, hasPid |-> FALSE,
      maxOutputChars |-> DEFAULT_MAX_OUTPUT, totalOutputChars |-> 0,
      pendingStdout |-> <<>>, pendingStderr |-> <<>>,
      aggregated |-> <<>>, tail |-> <<>>,
      exited |-> FALSE, exitCode |-> NONE, exitSignal |-> NULL,
      status |-> "running", endedAt |-> NONE,
      truncated |-> FALSE, backgrounded |-> FALSE,
      child |-> FALSE, pty |-> FALSE ]

\* the reason of a rejection: the text and the value interpolated into it
NoReason == [ text |-> NULL, seconds |-> NONE, signal |-> NULL, code |-> NONE ]

NoCall ==
    [ phase |-> "idle", settled |-> FALSE, yielded |-> FALSE, timedOut |-> FALSE,
      yieldTimer |-> FALSE, timeoutTimer |-> FALSE, signal |-> "none",
      result |-> "none", settlements |-> 0,
      effectiveTimeout |-> 0, reason |-> NoReason,
      warning |-> FALSE, warned |-> FALSE, update |-> "none" ]

NoProc ==
    [ proc |-> "none", killed |-> FALSE, stdio |-> FALSE, received |-> 0,
      stdin |-> "none", written |-> <<>>, lateKill |-> FALSE ]

NoPoll ==
    [ kind |-> "none", status |-> NULL, exitCode |-> NONE,
      stdout |-> <<>>, stderr |-> <<>>, text |-> <<>>, aggregated |-> <<>>,
      message |-> NULL, sessions |-> {}, totalLines |-> NONE ]

\* the reply of a process action that carries a status and a message only
replyOf(action, status, message) ==
    [NoPoll EXCEPT !.kind = action, !.status = status, !.message = message]

\* drained: every byte a drain has returned, in the order returned;
\* quietDrains: drains since the last appendOutput (counted up to 2);
\* loads: imports of the PTY backend this call has started
NoHist == [ drained |-> <<>>, quietDrains |-> 0, loads |-> 0 ]

Init ==
    /\ call = [id \in Ids |-> NoCall]
    /\ session = [id \in Ids |-> NoSession]
    /\ os = [id \in Ids |-> NoProc]
    /\ running = {}
    /\ finished = {}
    /\ deleted = {}
    /\ jobTtlMs = NONE
    /\ now = 0
    /\ ptyModule = "unloaded"
    /\ lastPoll = [id \in Ids \cup {NULL} |-> NoPoll]
    /\ hist = [id \in Ids |-> NoHist]

----------------------------------------------------------------------------
(* Executor: createBashTool(...).execute *)

\* settle without the `if (settled) return` guard
settleUnguarded(c, outcome) ==
    [c EXCEPT !.settled = TRUE, !.result = outcome, !.settlements = @ + 1]

\* settle(fn): the first settlement wins, later ones are dropped
settle(c, outcome) ==
    IF c.settled THEN c
    ELSE [c EXCEPT !.settled = TRUE, !.result = outcome, !.settlements = @ + 1]

\* killSession(session): killProcessTree(pid) and, in pty mode, pty.kill();
\* lateKill: it was invoked with the pid of a process whose exit was handled
killSession(o, s) ==
    IF (s.hasPid \/ s.stdinMode = "pty") /\ o.proc = "alive"
    THEN [o EXCEPT !.killed = TRUE]
    ELSE IF (s.hasPid \/ s.stdinMode = "pty") /\ o.proc = "exited"
    THEN [o EXCEPT !.lateKill = TRUE]
    ELSE o

\* the yield callback that marks the session but forgets resolveRunning()
onYieldNoResolve(c) ==
    IF c.settled THEN [c EXCEPT !.yieldTimer = FALSE]
    ELSE [c EXCEPT !.yieldTimer = FALSE, !.yielded = TRUE]

\* onYieldNow / the yield timer callback, on the closure state c
onYield(c) ==
    IF c.settled THEN [c EXCEPT !.yieldTimer = FALSE]
    ELSE [settle([c EXCEPT !.yieldTimer = FALSE, !.yielded = TRUE], "running")
            EXCEPT !.warned = c.warning]

\* values a caller may pass
YieldMsInputs == {NONE, 0, 50}
TimeoutInputs == {NONE, 0, 1}
SignalInputs == {"none", "idle", "aborted"}
StdinModeInputs == {NULL, "pipe", "pty"}

\* execute() with an empty command throws before anything is created
ExecuteInvalid(id) ==
    /\ call[id].phase = "idle"
    /\ call' = [call EXCEPT ![id].phase = "thrown", ![id].result = "thrown"]
    /\ UNCHANGED <<session, os, running, finished, deleted, jobTtlMs, now,
                   ptyModule, lastPoll, hist>>

\* a yield window that is clamped to [10, 120000] even when background is set
yieldWindowClamped(background, yieldMs) ==
    clampNumber(IF yieldMs = NONE THEN DEFAULT_BACKGROUND_MS ELSE yieldMs,
                DEFAULT_BACKGROUND_MS, 10, 120000)

\* const yieldWindow = params.background ? 0 : clampNumber(params.yieldMs ?? ...)
yieldWindowOf(background, yieldMs) ==
    IF background THEN 0
    ELSE clampNumber(IF yieldMs = NONE THEN DEFAULT_BACKGROUND_MS ELSE yieldMs,
                     DEFAULT_BACKGROUND_MS, 10, 120000)

\* pty = ptyModule.spawn(...): assigned when pty mode was requested, the
\* backend is loaded and its spawn does not throw
ptySpawned(requestedStdinMode, module, ptySpawnOk) ==
    requestedStdinMode = "pty" /\ module = "loaded" /\ ptySpawnOk

\* a pipe child spawned beside the PTY as well
childSpawnedAlways(stdinMode) == TRUE

\* if (stdinMode === "pipe") child = spawn(...): spawn returns the child
\* object whether or not the operating system starts the process
childSpawned(stdinMode) == stdinMode = "pipe"

\* execute() from argument validation to the creation of the promise
Execute(id, background, yieldMs, timeout, signal, requested, loadOk, ptySpawnOk, spawnOk) ==
    LET yieldWindow == yieldWindowOf(background, yieldMs)
        requestedStdinMode == IF requested = "pty" THEN "pty" ELSE "pipe"
        module ==
            IF requestedStdinMode # "pty" THEN ptyModule
            ELSE IF ptyModule # "unloaded" THEN ptyModule
            ELSE IF loadOk THEN "loaded" ELSE "failed"
        stdinMode ==
            IF requestedStdinMode = "pty" /\ module = "loaded" /\ ptySpawnOk
            THEN "pty" ELSE "pipe"
        spawned == stdinMode = "pty" \/ spawnOk
        s0 == [NoSession EXCEPT !.created = TRUE, !.stdinMode = stdinMode,
                                !.hasPid = spawned,
                                !.pty = ptySpawned(requestedStdinMode, module, ptySpawnOk),
                                !.child = childSpawned(stdinMode)]
        o0 == [NoProc EXCEPT !.proc = IF spawned THEN "alive" ELSE "spawnfail",
                             !.stdio = spawned,
                             !.stdin = IF stdinMode = "pty" THEN "none"
                                       ELSE IF spawned THEN "open" ELSE "destroyed"]
        o1 == IF signal = "aborted" THEN killSession(o0, s0) ELSE o0
        effectiveTimeout == IF timeout # NONE THEN timeout ELSE DEFAULT_TIMEOUT_SEC
        c0 == [NoCall EXCEPT !.phase = "open", !.signal = signal,
                             !.effectiveTimeout = effectiveTimeout,
                             !.warning = (requestedStdinMode = "pty" /\ stdinMode = "pipe"),
                             !.timeoutTimer = (effectiveTimeout > 0)]
        c1 == IF yieldWindow = 0 THEN onYield(c0)
              ELSE [c0 EXCEPT !.yieldTimer = TRUE]
        s1 == IF yieldWindow = 0 THEN markBackgrounded(s0) ELSE s0
    IN  /\ call[id].phase \in {"idle", "loading"}
        /\ call[id].phase = "loading" => requested = "pty"
        /\ requested = "pty" => ptyModule # "pending"
        /\ ptyModule' = module
        /\ hist' = [hist EXCEPT ![id].loads =
                        IF requested = "pty" /\ ptyModule = "unloaded" THEN 1 ELSE @]
        /\ session' = [session EXCEPT ![id] = s1]
        /\ os' = [os EXCEPT ![id] = o1]
        /\ call' = [call EXCEPT ![id] = c1]
        /\ running' = running \cup {id}
        /\ UNCHANGED <<finished, deleted, jobTtlMs, now, lastPoll>>

\* loadPtyModule() that caches a successful import only
LoadPtyRetry(id) ==
    /\ call[id].phase = "idle"
    /\ call' = [call EXCEPT ![id].phase = "loading"]
    /\ ptyModule' = IF ptyModule \in {"loaded", "pending"} THEN ptyModule ELSE "pending"
    /\ hist' = [hist EXCEPT ![id].loads =
                    IF ptyModule \in {"loaded", "pending"} THEN @ ELSE 1]
    /\ UNCHANGED <<session, os, running, finished, deleted, jobTtlMs, now, lastPoll>>

\* execute({stdinMode: "pty"}) up to `await loadPtyModule()`: the first caller
\* creates the promise of the import, every other caller gets that promise
LoadPty(id) ==
    /\ call[id].phase = "idle"
    /\ call' = [call EXCEPT ![id].phase = "loading"]
    /\ ptyModule' = IF ptyModule = "unloaded" THEN "pending" ELSE ptyModule
    /\ hist' = [hist EXCEPT ![id].loads = IF ptyModule = "unloaded" THEN 1 ELSE @]
    /\ UNCHANGED <<session, os, running, finished, deleted, jobTtlMs, now, lastPoll>>

\* import("node-pty") settles: .then(mod => ({module: mod})) or
\* .catch(error => ({module: null, error}))
ImportSettles(ok) ==
    /\ ptyModule = "pending"
    /\ ptyModule' = IF ok THEN "loaded" ELSE "failed"
    /\ UNCHANGED <<call, session, os, running, finished, deleted, jobTtlMs, now,
                   lastPoll, hist>>

\* the yield timer fires
YieldTimer(id) ==
    /\ call[id].yieldTimer
    /\ call' = [call EXCEPT ![id] = onYield(@)]
    /\ session' = [session EXCEPT ![id] =
                        IF call[id].settled THEN @ ELSE markBackgrounded(@)]
    /\ UNCHANGED <<os, running, finished, deleted, jobTtlMs, now, ptyModule, lastPoll, hist>>

\* a timeout that sets the flag and kills nothing
TimeoutTimerNoKill(id) ==
    /\ call[id].timeoutTimer
    /\ call[id].yieldTimer => call[id].effectiveTimeout * 1000 <= 120000
    /\ call' = [call EXCEPT ![id].timeoutTimer = FALSE, ![id].timedOut = TRUE]
    /\ UNCHANGED <<os, session, running, finished, deleted, jobTtlMs, now, ptyModule,
                   lastPoll, hist>>

\* the timeout timer fires: timedOut = true; onAbort().  Timers fire in the
\* order of their delays: while the yield timer (at most 120000 ms) is armed,
\* only a timeout of at most 120 seconds can fire
TimeoutTimer(id) ==
    /\ call[id].timeoutTimer
    /\ call[id].yieldTimer => call[id].effectiveTimeout * 1000 <= 120000
    /\ call' = [call EXCEPT ![id].timeoutTimer = FALSE, ![id].timedOut = TRUE]
    /\ os' = [os EXCEPT ![id] = killSession(@, session[id])]
    /\ UNCHANGED <<session, running, finished, deleted, jobTtlMs, now, ptyModule, lastPoll, hist>>

\* the external cancel signal is aborted: the once-listener runs onAbort()
Abort(id) ==
    /\ call[id].signal = "idle"
    /\ call' = [call EXCEPT ![id].signal = "aborted"]
    /\ os' = [os EXCEPT ![id] = killSession(@, session[id])]
    /\ UNCHANGED <<session, running, finished, deleted, jobTtlMs, now, ptyModule, lastPoll, hist>>

----------------------------------------------------------------------------
(* Child process events *)

\* (code, signal) pairs the exit event can carry
ExitPairs(id) ==
    IF session[id].stdinMode = "pty"
    THEN {<<0, NULL>>, <<1, NULL>>, <<0, "0">>}
            \cup (IF os[id].killed THEN {<<0, "9">>} ELSE {})
    ELSE {<<0, NULL>>, <<1, NULL>>, <<NONE, "SIGTERM">>}
            \cup (IF os[id].killed THEN {<<NONE, "SIGKILL">>} ELSE {})

\* a stdout / stderr / pty data listener: sanitize, slice, append each slice
onData(s, stream, raw) ==
    appendAll(s, stream, chunkString(sanitizeBinaryOutput(raw), CHUNK_LIMIT))

\* emitUpdate(): the progress update starts with the warning when there is one
emitUpdate(c) == [c EXCEPT !.update = IF c.warning THEN "warned" ELSE "plain"]

\* the transport delivers n bytes, preceded by a control byte when ctrl
Data(id, stream, n, ctrl, limit) ==
    LET first == os[id].received
        raw == (IF ctrl THEN <<0>> ELSE <<>>) \o [i \in 1..n |-> first + i]
    IN  /\ os[id].stdio
        /\ stream = "stderr" => session[id].stdinMode = "pipe"
        /\ raw # <<>>
        /\ first + n <= limit
        /\ os' = [os EXCEPT ![id].received = first + n]
        /\ session' = [session EXCEPT ![id] = onData(@, stream, raw)]
        /\ call' = [call EXCEPT ![id] = IF n > 0 THEN emitUpdate(@) ELSE @]
        /\ hist' = [hist EXCEPT ![id].quietDrains = IF n > 0 THEN 0 ELSE @]
        /\ UNCHANGED <<running, finished, deleted, jobTtlMs, now, ptyModule, lastPoll>>

\* handleExit that forgets to reject the call on a failed exit
handleExitCallNoReject(c, s, code, exitSignal) ==
    LET isSuccess == code = 0 /\ exitSignal = NULL /\ c.signal # "aborted" /\ ~c.timedOut
        c1 == [c EXCEPT !.yieldTimer = FALSE, !.timeoutTimer = FALSE]
    IN  IF c.yielded \/ s.backgrounded THEN c1
        ELSE IF ~isSuccess THEN c1
        ELSE settle(c1, "completed")

\* handleExit that reports a successful exit as a run still in progress
handleExitCallRunning(c, s, code, exitSignal) ==
    LET isSuccess == code = 0 /\ exitSignal = NULL /\ c.signal # "aborted" /\ ~c.timedOut
        c1 == [c EXCEPT !.yieldTimer = FALSE, !.timeoutTimer = FALSE]
    IN  IF c.yielded \/ s.backgrounded THEN c1
        ELSE IF ~isSuccess THEN settle(c1, "failed")
        ELSE settle(c1, "running")

\* the reason chosen by exit code first, then signal, then timeout
failureReasonByCode(timedOut, effectiveTimeout, code, exitSignal) ==
    IF code # NONE
    THEN [NoReason EXCEPT !.text = "Command exited with code", !.code = code]
    ELSE IF exitSignal # NULL /\ exitSignal # "0"
    THEN [NoReason EXCEPT !.text = "Command aborted by signal", !.signal = exitSignal]
    ELSE IF timedOut
    THEN [NoReason EXCEPT !.text = "Command timed out after", !.seconds = effectiveTimeout]
    ELSE [NoReason EXCEPT !.text = "Command aborted before exit code was captured"]

\* handleExit: const reason = timedOut ? ... : wasSignal && exitSignal ? ... ;
\* a numeric signal 0 of the pty backend is falsy
failureReason(timedOut, effectiveTimeout, code, exitSignal) ==
    IF timedOut
    THEN [NoReason EXCEPT !.text = "Command timed out after", !.seconds = effectiveTimeout]
    ELSE IF exitSignal # NULL /\ exitSignal # "0"
    THEN [NoReason EXCEPT !.text = "Command aborted by signal", !.signal = exitSignal]
    ELSE IF code = NONE
    THEN [NoReason EXCEPT !.text = "Command aborted before exit code was captured"]
    ELSE [NoReason EXCEPT !.text = "Command exited with code", !.code = code]

\* handleExit(code, exitSignal): the closure state afterwards
handleExitCall(c, s, code, exitSignal) ==
    LET wasSignal == exitSignal # NULL
        isSuccess == code = 0 /\ ~wasSignal /\ c.signal # "aborted" /\ ~c.timedOut
        c1 == [c EXCEPT !.yieldTimer = FALSE, !.timeoutTimer = FALSE]
        reason == failureReason(c.timedOut, c.effectiveTimeout, code, exitSignal)
    IN  IF c.yielded \/ s.backgrounded THEN c1
        ELSE IF ~isSuccess
        THEN IF c1.settled THEN settle(c1, "failed")
             ELSE [settle(c1, "failed") EXCEPT !.reason = reason]
        ELSE IF c1.settled THEN settle(c1, "completed")
        ELSE [settle(c1, "completed") EXCEPT !.warned = c.warning]

\* handleExit whose isSuccess leaves out `!timedOut`
handleExitStatusNoTimeout(c, code, exitSignal) ==
    IF code = 0 /\ exitSignal = NULL /\ c.signal # "aborted"
    THEN "completed" ELSE "failed"

\* handleExit(code, exitSignal): the status it records
handleExitStatus(c, code, exitSignal) ==
    IF code = 0 /\ exitSignal = NULL /\ c.signal # "aborted" /\ ~c.timedOut
    THEN "completed" ELSE "failed"

\* child.once("exit") / pty.onExit: the OS reports the process exit
ExitEvent(id, code, exitSignal) ==
    /\ os[id].proc \in {"alive", "errored"}
    /\ <<code, exitSignal>> \in ExitPairs(id)
    /\ os' = [os EXCEPT ![id].proc = "exited",
                         ![id].stdio = @ /\ session[id].stdinMode = "pipe",
                         ![id].stdin = IF @ = "none" THEN @ ELSE "destroyed"]
    /\ session' = [session EXCEPT ![id] =
            markExited(@, code, exitSignal, handleExitStatus(call[id], code, exitSignal))]
    /\ running' = runningAfterExit(id)
    /\ finished' = finishedAfterExit(id)
    /\ call' = [call EXCEPT ![id] = handleExitCall(@, session[id], code, exitSignal)]
    /\ UNCHANGED <<deleted, jobTtlMs, now, ptyModule, lastPoll, hist>>

\* child.once("error"): the spawn failed
ErrorEvent(id) ==
    /\ os[id].proc = "spawnfail"
    /\ os' = [os EXCEPT ![id].proc = "errored"]
    /\ session' = [session EXCEPT ![id] = markExited(@, NONE, NULL, "failed")]
    /\ running' = runningAfterExit(id)
    /\ finished' = finishedAfterExit(id)
    /\ call' = [call EXCEPT ![id] =
            settle([@ EXCEPT !.yieldTimer = FALSE, !.timeoutTimer = FALSE], "error")]
    /\ UNCHANGED <<deleted, jobTtlMs, now, ptyModule, lastPoll, hist>>

\* the stdio pipes of a dead process reach end of file
StdioClose(id) ==
    /\ os[id].proc = "exited"
    /\ os[id].stdio
    /\ os' = [os EXCEPT ![id].stdio = FALSE]
    /\ UNCHANGED <<call, session, running, finished, deleted, jobTtlMs, now,
                   ptyModule, lastPoll, hist>>

----------------------------------------------------------------------------
(* Controller: createProcessTool(...).execute *)

\* deleteSession(id): removes the id from either set
deleteSession(id) ==
    /\ running' = running \ {id}
    /\ finished' = finished \ {id}
    /\ deleted' = IF id \in running \cup finished THEN deleted \cup {id} ELSE deleted

\* the status poll derives from the exit code and signal of a live session
pollStatus(s) ==
    LET exitCode == IF s.exitCode = NONE THEN 0 ELSE s.exitCode
    IN  IF ~s.exited THEN "running"
        ELSE IF exitCode = 0 /\ s.exitSignal = NULL THEN "completed" ELSE "failed"

\* poll that reads the pending buffers without draining them
pollPeek(s) == s

\* poll that empties the stdout buffer only
pollDrainStdoutOnly(s) == [s EXCEPT !.pendingStdout = <<>>]

\* poll: const { stdout, stderr } = drainSession(session)
pollDrain(s) == drainSession(s)

\* action "poll"
Poll(id) ==
    LET s == session[id]
        out == drainOut(s)
        drained == pollDrain(s)
    IN  /\ call[id].phase = "open"
        /\ IF id \notin running
           THEN /\ lastPoll' = [lastPoll EXCEPT ![id] =
                        IF id \in finished
                        THEN [NoPoll EXCEPT
                                !.kind = "finished",
                                !.status = IF s.status = "completed"
                                           THEN "completed" ELSE "failed",
                                !.exitCode = s.exitCode,
                                !.text = s.tail,
                                !.aggregated = s.aggregated]
                        ELSE replyOf("notfound", "failed", "No session found")]
                /\ UNCHANGED <<session, running, finished, hist>>
           ELSE IF ~s.backgrounded
           THEN /\ lastPoll' = [lastPoll EXCEPT ![id] =
                        replyOf("notbackgrounded", "failed", "is not backgrounded")]
                /\ UNCHANGED <<session, running, finished, hist>>
           ELSE /\ session' = [session EXCEPT ![id] =
                        IF s.exited
                        THEN markExited(drained, s.exitCode, s.exitSignal, pollStatus(s))
                        ELSE drained]
                /\ running' = IF s.exited THEN runningAfterExit(id) ELSE running
                /\ finished' = IF s.exited THEN finishedAfterExit(id) ELSE finished
                /\ lastPoll' = [lastPoll EXCEPT ![id] =
                        [ kind |-> "live", status |-> pollStatus(s),
                          exitCode |-> IF ~s.exited THEN NONE
                                       ELSE IF s.exitCode = NONE THEN 0 ELSE s.exitCode,
                          stdout |-> out.stdout, stderr |-> out.stderr,
                          text |-> out.stdout \o out.stderr,
                          aggregated |-> s.aggregated, message |-> NULL,
                          sessions |-> {}, totalLines |-> NONE ]]
                /\ hist' = [hist EXCEPT
                        ![id].drained = @ \o out.stdout \o out.stderr,
                        ![id].quietDrains = Min(@ + 1, 2)]
        /\ UNCHANGED <<call, os, deleted, jobTtlMs, now, ptyModule>>

\* kill that also hands the session back to the foreground
KillUnbackground(id) ==
    /\ id \in running
    /\ session[id].backgrounded
    /\ os' = [os EXCEPT ![id] = killSession(@, session[id])]
    /\ session' = [session EXCEPT ![id] =
            [markExited(@, NONE, "SIGKILL", "failed") EXCEPT !.backgrounded = FALSE]]
    /\ running' = runningAfterExit(id)
    /\ finished' = finishedAfterExit(id)
    /\ lastPoll' = [lastPoll EXCEPT ![id] = replyOf("kill", "failed", "Killed session")]
    /\ UNCHANGED <<call, deleted, jobTtlMs, now, ptyModule, hist>>

\* action "kill"
Kill(id) ==
    /\ id \in running
    /\ session[id].backgrounded
    /\ os' = [os EXCEPT ![id] = killSession(@, session[id])]
    /\ session' = [session EXCEPT ![id] = markExited(@, NONE, "SIGKILL", "failed")]
    /\ running' = runningAfterExit(id)
    /\ finished' = finishedAfterExit(id)
    /\ lastPoll' = [lastPoll EXCEPT ![id] = replyOf("kill", "failed", "Killed session")]
    /\ UNCHANGED <<call, deleted, jobTtlMs, now, ptyModule, hist>>

\* log that drains the pending buffers
LogDraining(id) ==
    LET s == session[id]
    IN  /\ lastPoll' = [lastPoll EXCEPT ![id] =
                IF id \in running /\ ~s.backgrounded
                THEN replyOf("log", "failed", "is not backgrounded")
                ELSE IF id \in running
                THEN [replyOf("log", IF s.exited THEN "completed" ELSE "running", NULL)
                        EXCEPT !.text = s.aggregated]
                ELSE IF id \in finished
                THEN [replyOf("log", IF s.status = "completed" THEN "completed"
                                     ELSE "failed", NULL)
                        EXCEPT !.text = s.aggregated, !.exitCode = s.exitCode]
                ELSE replyOf("log", "failed", "No session found")]
        /\ session' = [session EXCEPT ![id] = drainSession(@)]
        /\ UNCHANGED <<call, os, running, finished, deleted, jobTtlMs, now,
                       ptyModule, hist>>

\* action "log" without offset and limit: the whole of aggregated
Log(id) ==
    LET s == session[id]
    IN  /\ lastPoll' = [lastPoll EXCEPT ![id] =
                IF id \in running /\ ~s.backgrounded
                THEN replyOf("log", "failed", "is not backgrounded")
                ELSE IF id \in running
                THEN [replyOf("log", IF s.exited THEN "completed" ELSE "running", NULL)
                        EXCEPT !.text = s.aggregated]
                ELSE IF id \in finished
                THEN [replyOf("log", IF s.status = "completed" THEN "completed"
                                     ELSE "failed", NULL)
                        EXCEPT !.text = s.aggregated, !.exitCode = s.exitCode]
                ELSE replyOf("log", "failed", "No session found")]
        /\ UNCHANGED <<call, session, os, running, finished, deleted, jobTtlMs, now,
                       ptyModule, hist>>

\* offsets and limits a caller may pass: absent, negative, zero, positive
\* (NONE stands for the absent number, so -1 itself is not among them)
OffsetInputs == {NONE, -2, 0, 1, 2}
LimitInputs == {NONE, -2, 0, 1, 2, 3}

\* action "log" with params.offset and params.limit
LogSlice(id, offset, limit) ==
    LET s == session[id]
        r == sliceLogLines(s.aggregated, offset, limit)
        sliced(status, placeholder) ==
            [replyOf("log", status, IF r.slice = <<>> THEN placeholder ELSE NULL)
                EXCEPT !.text = r.slice, !.totalLines = r.totalLines]
    IN  /\ lastPoll' = [lastPoll EXCEPT ![id] =
                IF id \in running /\ ~s.backgrounded
                THEN replyOf("log", "failed", "is not backgrounded")
                ELSE IF id \in running
                THEN sliced(IF s.exited THEN "completed" ELSE "running", "(no output yet)")
                ELSE IF id \in finished
                THEN [sliced(IF s.status = "completed" THEN "completed" ELSE "failed",
                             "(no output recorded)")
                        EXCEPT !.exitCode = s.exitCode]
                ELSE replyOf("log", "failed", "No session found")]
        /\ UNCHANGED <<call, session, os, running, finished, deleted, jobTtlMs, now,
                       ptyModule, hist>>

\* what a caller may pass as data: nothing (written as "") or some text
DataInputs == {"", "text"}

\* a refusal of write that answers an unknown session as poll and log do
writeRefusalGeneric(id) ==
    IF id \notin running THEN "No session found"
    ELSE IF ~session[id].backgrounded THEN "is not backgrounded"
    ELSE IF session[id].stdinMode = "pty" /\ session[id].exited
    THEN "stdin is not writable"
    ELSE IF session[id].stdinMode = "pipe" /\ os[id].stdin \in {"none", "destroyed"}
    THEN "stdin is not writable"
    ELSE NULL

\* the early returns of write: the text of the failure, NULL when it goes on
writeRefusal(id) ==
    IF id \notin running THEN "No active session found"
    ELSE IF ~session[id].backgrounded THEN "is not backgrounded"
    ELSE IF session[id].stdinMode = "pty" /\ session[id].exited
    THEN "stdin is not writable"
    ELSE IF session[id].stdinMode = "pipe" /\ os[id].stdin \in {"none", "destroyed"}
    THEN "stdin is not writable"
    ELSE NULL

\* a delivery that sends the end of input ahead of the data
deliveredEofFirst(stdinMode, data, eof) ==
    (IF ~eof THEN <<>> ELSE IF stdinMode = "pty" THEN <<"\\x04">> ELSE <<"end">>)
        \o <<data>>

\* what a successful write hands to the transport, in order: the data
\* (params.data ?? ""), then pty.write("\x04") or stdin.end() when eof
delivered(stdinMode, data, eof) ==
    <<data>> \o
        (IF ~eof THEN <<>> ELSE IF stdinMode = "pty" THEN <<"\\x04">> ELSE <<"end">>)

\* action "write"; werr: the pipe reports a write error to the callback of
\* stdin.write, as it does for every write after end()
Write(id, data, eof, werr) ==
    LET s == session[id]
        o == os[id]
        failed == writeRefusal(id)
        err == s.stdinMode = "pipe" /\ (werr \/ o.stdin = "ended")
    IN  /\ (failed = NULL /\ ~err)
                => Len(o.written) + (IF eof THEN 2 ELSE 1) <= MaxWritten
        /\ IF failed # NULL
           THEN /\ lastPoll' = [lastPoll EXCEPT ![id] = replyOf("write", "failed", failed)]
                /\ UNCHANGED os
           ELSE IF err
           THEN /\ lastPoll' = [lastPoll EXCEPT ![id] =
                        replyOf("write", "rejected", "write error")]
                /\ os' = [os EXCEPT ![id].stdin = "destroyed"]
           ELSE /\ lastPoll' = [lastPoll EXCEPT ![id] =
                        replyOf("write", "running",
                                IF eof THEN "Wrote bytes (stdin closed)" ELSE "Wrote bytes")]
                /\ os' = [os EXCEPT
                        ![id].written = @ \o delivered(s.stdinMode, data, eof),
                        ![id].stdin =
                            IF eof /\ s.stdinMode = "pipe" THEN "ended" ELSE @]
        /\ UNCHANGED <<call, session, running, finished, deleted, jobTtlMs, now,
                       ptyModule, hist>>

\* a refused kill that kills the process all the same
KillRefusedButKills(id) ==
    /\ ~(id \in running /\ session[id].backgrounded)
    /\ os' = [os EXCEPT ![id] = killSession(@, session[id])]
    /\ lastPoll' = [lastPoll EXCEPT ![id] =
            replyOf("kill", "failed",
                    IF id \notin running THEN "No active session found"
                    ELSE "is not backgrounded")]
    /\ UNCHANGED <<call, session, running, finished, deleted, jobTtlMs, now,
                   ptyModule, hist>>

\* action "kill" without a live session, or on one that is not backgrounded
KillRefused(id) ==
    /\ ~(id \in running /\ session[id].backgrounded)
    /\ lastPoll' = [lastPoll EXCEPT ![id] =
            replyOf("kill", "failed",
                    IF id \notin running THEN "No active session found"
                    ELSE "is not backgrounded")]
    /\ UNCHANGED <<call, session, os, running, finished, deleted, jobTtlMs, now,
                   ptyModule, hist>>

\* action "clear"
Clear(id) ==
    /\ id \in finished
    /\ deleteSession(id)
    /\ lastPoll' = [lastPoll EXCEPT ![id] =
                        replyOf("clear", "completed", "Cleared session")]
    /\ UNCHANGED <<call, session, os, jobTtlMs, now, ptyModule, hist>>

\* a refused clear that deletes the session all the same
ClearRefusedButDeletes(id) ==
    /\ id \notin finished
    /\ deleteSession(id)
    /\ lastPoll' = [lastPoll EXCEPT ![id] =
                        replyOf("clear", "failed", "No finished session found")]
    /\ UNCHANGED <<call, session, os, jobTtlMs, now, ptyModule, hist>>

\* action "clear" on an id that is not in the finished set
ClearRefused(id) ==
    /\ id \notin finished
    /\ lastPoll' = [lastPoll EXCEPT ![id] =
                        replyOf("clear", "failed", "No finished session found")]
    /\ UNCHANGED <<call, session, os, running, finished, deleted, jobTtlMs, now,
                   ptyModule, hist>>

\* action "remove"
Remove(id) ==
    /\ id \in running \cup finished
    /\ IF id \in running
       THEN /\ os' = [os EXCEPT ![id] = killSession(@, session[id])]
            /\ session' = [session EXCEPT ![id] = markExited(@, NONE, "SIGKILL", "failed")]
            /\ running' = runningAfterExit(id)
            /\ finished' = finishedAfterExit(id)
            /\ UNCHANGED deleted
       ELSE /\ deleteSession(id)
            /\ UNCHANGED <<os, session>>
    /\ lastPoll' = [lastPoll EXCEPT ![id] =
            replyOf("remove", IF id \in running THEN "failed" ELSE "completed",
                    "Removed session")]
    /\ UNCHANGED <<call, jobTtlMs, now, ptyModule, hist>>

\* action "remove" on a session that is neither live nor finished
RemoveRefused(id) ==
    /\ id \notin running \cup finished
    /\ lastPoll' = [lastPoll EXCEPT ![id] = replyOf("remove", "failed", "No session found")]
    /\ UNCHANGED <<call, session, os, running, finished, deleted, jobTtlMs, now,
                   ptyModule, hist>>

\* process({action: "list"}): every live and every finished session, whether
\* or not a sessionId came with the call
List ==
    /\ lastPoll' = [lastPoll EXCEPT ![NULL] =
            [replyOf("list", "completed",
                     IF running \cup finished = {}
                     THEN "No running or recent sessions." ELSE "lines")
                EXCEPT !.sessions = running \cup finished]]
    /\ UNCHANGED <<call, session, os, running, finished, deleted, jobTtlMs, now,
                   ptyModule, hist>>

ActionsWithId == {"poll", "log", "write", "kill", "clear", "remove"}

\* a call without sessionId that treats every session as its target
MissingSessionIdActs(action) ==
    /\ lastPoll' = [lastPoll EXCEPT ![NULL] =
            replyOf(action, "failed", "sessionId is required for this action.")]
    /\ finished' = IF action = "clear" THEN {} ELSE finished
    /\ deleted' = IF action = "clear" THEN deleted \cup finished ELSE deleted
    /\ UNCHANGED <<call, session, os, running, jobTtlMs, now, ptyModule, hist>>

\* process({action}) without sessionId, for an action other than list
MissingSessionId(action) ==
    /\ lastPoll' = [lastPoll EXCEPT ![NULL] =
            replyOf(action, "failed", "sessionId is required for this action.")]
    /\ UNCHANGED <<call, session, os, running, finished, deleted, jobTtlMs, now,
                   ptyModule, hist>>

----------------------------------------------------------------------------
(* Retention of finished sessions *)

\* createProcessTool({cleanupMs}): setJobTtlMs(ms)
TtlInputs == {0, 1}

SetJobTtl(ms) ==
    /\ jobTtlMs # ms
    /\ jobTtlMs' = ms
    /\ UNCHANGED <<call, session, os, running, finished, deleted, now, ptyModule, lastPoll, hist>>

\* a sweep that also takes the entries that have just reached the ttl, and
\* every finished entry when the ttl is 0
expiredEarly ==
    IF jobTtlMs = NONE THEN {}
    ELSE {id \in finished : session[id].endedAt + jobTtlMs <= now}

\* the entries of the finished set the sweep removes
expired ==
    IF jobTtlMs = NONE \/ jobTtlMs = 0 THEN {}
    ELSE {id \in finished : session[id].endedAt + jobTtlMs < now}

\* a sweep that finds the expired entries and keeps them
SweepKeeps ==
    /\ expired # {}
    /\ UNCHANGED <<call, session, os, running, finished, deleted, jobTtlMs, now,
                   ptyModule, lastPoll, hist>>

\* the sweep timer fires
Sweep ==
    /\ expired # {}
    /\ finished' = finished \ expired
    /\ deleted' = deleted \cup expired
    /\ UNCHANGED <<call, session, os, running, jobTtlMs, now, ptyModule, lastPoll, hist>>

\* time passes
Tick ==
    /\ now < MaxTime
    /\ now' = now + 1
    /\ UNCHANGED <<call, session, os, running, finished, deleted, jobTtlMs,
                   ptyModule, lastPoll, hist>>

----------------------------------------------------------------------------
(* Specifications *)

\* execute() with any arguments
ExecuteAny(id) ==
    \E background \in BOOLEAN, yieldMs \in YieldMsInputs,
       timeout \in TimeoutInputs, signal \in SignalInputs,
       requested \in StdinModeInputs, loadOk \in BOOLEAN,
       ptySpawnOk \in BOOLEAN, spawnOk \in BOOLEAN :
        Execute(id, background, yieldMs, timeout, signal, requested,
                loadOk, ptySpawnOk, spawnOk)

\* execute({background: true, timeout: 0}) without a cancel signal
ExecuteBackground(id) ==
    \E requested \in {"pipe", "pty"} :
        Execute(id, TRUE, NONE, 0, "none", requested, TRUE, TRUE, TRUE)

\* the exit event with any (code, signal) the OS can report
ExitAny(id) ==
    \E code \in {NONE, 0, 1}, exitSignal \in {NULL, "SIGTERM", "SIGKILL", "0", "9"} :
        ExitEvent(id, code, exitSignal)

\* a data event of the lifecycle specification: at most LifeRecv bytes in all
DataLife(id) ==
    \E stream \in {"stdout", "stderr"}, n \in 0..1, ctrl \in BOOLEAN :
        Data(id, stream, n, ctrl, LifeRecv)

\* a data event of the output specification
DataAny(id) ==
    \E stream \in {"stdout", "stderr"}, n \in 0..MaxData, ctrl \in BOOLEAN :
        Data(id, stream, n, ctrl, MaxRecv)

\* executor and controller steps on one session
Lifecycle(id) ==
    \/ ExecuteInvalid(id)
    \/ ExecuteAny(id)
    \/ YieldTimer(id)
    \/ TimeoutTimer(id)
    \/ Abort(id)
    \/ ExitAny(id)
    \/ ErrorEvent(id)
    \/ StdioClose(id)
    \/ Poll(id)
    \/ Kill(id)
    \/ Clear(id)
    \/ Remove(id)

\* the lifecycle of a session with little output
Next == \E id \in Main : Lifecycle(id) \/ DataLife(id)

Spec == Init /\ [][Next]_vars

\* output capture of a backgrounded session
NextOutput ==
    \E id \in Main :
        \/ ExecuteBackground(id)
        \/ DataAny(id)
        \/ Poll(id)
        \/ ExitAny(id)
        \/ StdioClose(id)

SpecOutput == Init /\ [][NextOutput]_vars

\* execute() where the PTY backend, when asked for, loads and spawns
ExecuteLoaded(id) ==
    \E background \in BOOLEAN, timeout \in {0, 1}, signal \in SignalInputs,
       requested \in {"pipe", "pty"}, spawnOk \in BOOLEAN :
        Execute(id, background, NONE, timeout, signal, requested, TRUE, TRUE, spawnOk)

\* the lifecycle of a session without output, and the retention of finished sessions
NextRegistry ==
    \/ \E id \in Main :
        \/ ExecuteInvalid(id)
        \/ ExecuteLoaded(id)
        \/ YieldTimer(id)
        \/ TimeoutTimer(id)
        \/ Abort(id)
        \/ ExitAny(id)
        \/ ErrorEvent(id)
        \/ Poll(id)
        \/ Kill(id)
        \/ Clear(id)
        \/ Remove(id)
    \/ \E ms \in TtlInputs : SetJobTtl(ms)
    \/ Sweep
    \/ Tick

SpecRegistry == Init /\ [][NextRegistry]_vars

\* execute({background: true, ...}) with any other arguments
ExecuteBackgroundAny(id) ==
    \E yieldMs \in YieldMsInputs, timeout \in TimeoutInputs, signal \in SignalInputs,
       requested \in StdinModeInputs, loadOk \in BOOLEAN,
       ptySpawnOk \in BOOLEAN, spawnOk \in BOOLEAN :
        Execute(id, TRUE, yieldMs, timeout, signal, requested,
                loadOk, ptySpawnOk, spawnOk)

\* the lifecycle of a session started with background = true
NextBackground ==
    \E id \in Main :
        \/ ExecuteBackgroundAny(id)
        \/ TimeoutTimer(id)
        \/ Abort(id)
        \/ DataLife(id)
        \/ ExitAny(id)
        \/ ErrorEvent(id)
        \/ StdioClose(id)
        \/ Poll(id)
        \/ Kill(id)
        \/ Clear(id)
        \/ Remove(id)

SpecBackground == Init /\ [][NextBackground]_vars

\* execute({stdinMode: "pty", timeout: 0}) after the await, without a cancel signal
ExecutePty(id) ==
    \E background \in BOOLEAN, ptySpawnOk \in BOOLEAN :
        /\ call[id].phase = "loading"
        /\ Execute(id, background, NONE, 0, "none", "pty", TRUE, ptySpawnOk, TRUE)

\* pty-mode calls, one after another or overlapping
NextPty ==
    \/ \E id \in Ids :
        \/ LoadPty(id)
        \/ ExecutePty(id)
        \/ YieldTimer(id)
        \/ ExitAny(id)
    \/ \E ok \in BOOLEAN : ImportSettles(ok)

SpecPty == Init /\ [][NextPty]_vars

\* execute({timeout: 0}) without a cancel signal, where every spawn succeeds
ExecuteSpawned(id) ==
    \E background \in BOOLEAN, requested \in {"pipe", "pty"} :
        Execute(id, background, NONE, 0, "none", requested, TRUE, TRUE, TRUE)

\* the process tool on a session that is live, finished or unknown
NextController ==
    \E id \in Main :
        \/ ExecuteSpawned(id)
        \/ YieldTimer(id)
        \/ DataLife(id)
        \/ ExitAny(id)
        \/ StdioClose(id)
        \/ Poll(id)
        \/ Log(id)
        \/ \E data \in DataInputs, eof \in BOOLEAN, werr \in BOOLEAN :
                Write(id, data, eof, werr)
        \/ Kill(id)
        \/ KillRefused(id)
        \/ Clear(id)
        \/ ClearRefused(id)
        \/ Remove(id)
        \/ RemoveRefused(id)

SpecController == Init /\ [][NextController]_vars

\* the process tool called with and without a sessionId
NextArguments ==
    \/ \E id \in Main :
        \/ ExecuteSpawned(id)
        \/ YieldTimer(id)
        \/ ExitAny(id)
        \/ Kill(id)
        \/ Clear(id)
        \/ Remove(id)
    \/ List
    \/ \E action \in ActionsWithId : MissingSessionId(action)

SpecArguments == Init /\ [][NextArguments]_vars

\* texts of at most n characters over an ordinary character, "\n" and "\r"
TextsUpTo(n) == UNION {[1..k -> {1, LF, CR}] : k \in 0..n}

\* a session that was started in the background under an output cap of MaxText,
\* printed `text` to stdout, was polled and then exited with code 0
LoggedSession(text) ==
    LET s0 == [NoSession EXCEPT !.created = TRUE, !.stdinMode = "pipe",
                                !.hasPid = TRUE, !.child = childSpawned("pipe"),
                                !.maxOutputChars = MaxText]
        s1 == appendAll(markBackgrounded(s0), "stdout", chunkString(text, CHUNK_LIMIT))
    IN  markExited(drainSession(s1), 0, NULL, "completed")

\* the registry holds one finished session with some output
InitLog ==
    /\ now = 0
    /\ \E text \in TextsUpTo(MaxText) :
            session = [id \in Ids |-> IF id \in Main THEN LoggedSession(text)
                                      ELSE NoSession]
    /\ call = [id \in Ids |->
                IF id \in Main
                THEN handleExitCall(onYield([NoCall EXCEPT !.phase = "open"]),
                                    markBackgrounded(NoSession), 0, NULL)
                ELSE NoCall]
    /\ os = [id \in Ids |->
                IF id \in Main
                THEN [NoProc EXCEPT !.proc = "exited", !.stdin = "destroyed"]
                ELSE NoProc]
    /\ running = {}
    /\ finished = Main
    /\ deleted = {}
    /\ jobTtlMs = NONE
    /\ ptyModule = "unloaded"
    /\ lastPoll = [id \in Ids \cup {NULL} |-> NoPoll]
    /\ hist = [id \in Ids |-> NoHist]

\* log calls on that session
NextLog ==
    \E id \in Main, offset \in OffsetInputs, limit \in LimitInputs :
        LogSlice(id, offset, limit)

SpecLog == InitLog /\ [][NextLog]_vars

\* sessions that nobody clears or removes, under a retention above zero
NextRetention ==
    \/ \E id \in Main :
        \/ ExecuteSpawned(id)
        \/ YieldTimer(id)
        \/ ExitAny(id)
        \/ Poll(id)
        \/ Kill(id)
    \/ \E ms \in TtlInputs \ {0} : SetJobTtl(ms)
    \/ Sweep
    \/ Tick

\* the sweep timer keeps firing and the clock keeps advancing
SpecRetention ==
    /\ Init
    /\ [][NextRetention]_vars
    /\ WF_vars(Sweep)
    /\ WF_vars(Tick)

\* the exit event of a process that was sent SIGKILL
ExitKilled(id) == os[id].killed /\ ExitAny(id)

\* the lifecycle specification where a killed process eventually exits
SpecKilled ==
    /\ Spec
    /\ \A id \in Main : WF_vars(ExitKilled(id))

\* the lifecycle specification where an armed timer eventually fires and the
\* error event of a failed spawn is eventually delivered
SpecLive ==
    /\ Spec
    /\ \A id \in Main :
        /\ WF_vars(YieldTimer(id))
        /\ WF_vars(TimeoutTimer(id))
        /\ WF_vars(ErrorEvent(id))

----------------------------------------------------------------------------
(* Properties *)

Opened == {id \in Ids : call[id].phase = "open"}

\* C1: a call is settled at most once (of resolve-running, resolve-success and
\* reject-failure at most one fires), and once the caller has a result no later
\* event changes it.
C1_SettledAtMostOnce ==
    /\ [](\A id \in Ids : call[id].settlements <= 1)
    /\ [][\A id \in Ids :
            call[id].result # "none" => call'[id].result = call[id].result]_vars

\* a rejected call whose process then reported its exit: the second settlement
\* attempt was dropped
C1_Witness ==
    \E id \in Ids :
        /\ call[id].result = "error"
        /\ os[id].proc = "exited"
        /\ call[id].settlements = 1

\* C2: every call that passed argument validation is eventually settled, when
\* armed timers eventually fire and the error event is eventually delivered.
C2_EventuallySettled ==
    \A id \in Main : (call[id].phase = "open") ~> call[id].settled

\* a call settled as failed by the exit of a process that was killed
C2_Witness ==
    \E id \in Ids :
        /\ call[id].settled
        /\ call[id].result = "failed"
        /\ os[id].killed

\* C3: a session that was created and not removed from the registry is in
\* exactly one of the live set and the finished set.
C3_ExactlyOneSet ==
    \A id \in Opened \ deleted :
        /\ id \in running \cup finished
        /\ ~(id \in running /\ id \in finished)

\* a session moved to the finished set by a controller kill while its process
\* is still alive
C3_Witness ==
    \E id \in Opened :
        /\ id \in finished
        /\ session[id].exitSignal = "SIGKILL"
        /\ os[id].proc = "alive"

\* C4: the aggregated output never exceeds the session's cap.
C4_AggregatedWithinCap ==
    \A id \in Ids : Len(session[id].aggregated) <= session[id].maxOutputChars

\* a session that received more than the cap and holds exactly the cap
C4_Witness ==
    \E id \in Ids :
        /\ session[id].totalOutputChars > session[id].maxOutputChars
        /\ Len(session[id].aggregated) = session[id].maxOutputChars

\* C5: totalOutputChars never decreases and counts every character received;
\* once it has reached the cap every later chunk leaves aggregated unchanged
\* and sets truncated; truncated never clears; when more than the cap was
\* received, aggregated holds exactly maxOutputChars characters.
C5_TotalAndTruncation ==
    /\ [](\A id \in Ids :
            /\ session[id].totalOutputChars = os[id].received
            /\ session[id].totalOutputChars > session[id].maxOutputChars =>
                    /\ Len(session[id].aggregated) = session[id].maxOutputChars
                    /\ session[id].truncated)
    /\ [][\A id \in Ids :
            /\ session'[id].totalOutputChars >= session[id].totalOutputChars
            /\ session[id].truncated => session'[id].truncated
            /\ (/\ session[id].totalOutputChars >= session[id].maxOutputChars
                /\ session'[id].totalOutputChars > session[id].totalOutputChars) =>
                    /\ session'[id].aggregated = session[id].aggregated
                    /\ session'[id].truncated]_vars

\* a truncated session: more received than the cap, the excess dropped
C5_Witness ==
    \E id \in Ids :
        /\ session[id].truncated
        /\ session[id].totalOutputChars = MaxRecv
        /\ Len(session[id].aggregated) < session[id].totalOutputChars

\* C6: once a session has exited = true, no chunk is appended to its
\* aggregated, pendingStdout or pendingStderr.
C6_NoAppendAfterExit ==
    [][\A id \in Ids :
        session[id].exited =>
            /\ session'[id].aggregated = session[id].aggregated
            /\ Len(session'[id].pendingStdout) <= Len(session[id].pendingStdout)
            /\ Len(session'[id].pendingStderr) <= Len(session[id].pendingStderr)]_vars

\* the conditions under which handleExit classifies an exit as a success
ExitIsSuccess(id) ==
    /\ session'[id].exitCode = 0
    /\ session'[id].exitSignal = NULL
    /\ ~call[id].timedOut
    /\ call[id].signal # "aborted"

\* C7: a session's status is running iff it has not exited; a status of
\* completed goes with exit code 0, no exit signal and no timeout, and it is
\* recorded only when the cancel signal was not aborted at that moment; every
\* other exit is recorded as failed.
C7_StatusMatchesExit ==
    /\ [](\A id \in Ids :
            /\ session[id].status = "running" <=> ~session[id].exited
            /\ session[id].status \in {"running", "completed", "failed"}
            /\ session[id].status = "completed" =>
                    /\ session[id].exitCode = 0
                    /\ session[id].exitSignal = NULL
                    /\ ~call[id].timedOut)
    /\ [][\A id \in Ids :
            /\ (session'[id].status = "completed" /\ session[id].status # "completed")
                    => ExitIsSuccess(id)
            /\ (session'[id].exited /\ ~session[id].exited /\ ~ExitIsSuccess(id))
                    => session'[id].status = "failed"]_vars

\* both outcomes recorded: a completed session, and one whose timeout fired
\* and whose process still exited with code 0
C7_Witness ==
    \E id \in Ids :
        /\ session[id].status = "failed"
        /\ session[id].exitCode = 0
        /\ session[id].exitSignal = NULL
        /\ call[id].timedOut

\* C8: a session is backgrounded exactly when its call was resolved with the
\* "still running" result.
C8_BackgroundedIffRunningResult ==
    \A id \in Ids : session[id].backgrounded <=> call[id].result = "running"

\* the yield timer fired on an unsettled call and the process later exited
C8_Witness ==
    \E id \in Ids :
        /\ session[id].backgrounded
        /\ call[id].result = "running"
        /\ call[id].settlements = 1
        /\ os[id].proc = "exited"

\* C9: backgrounded only ever changes from false to true.
C9_BackgroundedMonotonic ==
    [][\A id \in Ids : session[id].backgrounded => session'[id].backgrounded]_vars

\* a backgrounded session that was killed and then cleared
C9_Witness ==
    \E id \in Ids :
        /\ session[id].backgrounded
        /\ session[id].exitSignal = "SIGKILL"
        /\ id \in deleted

\* the output bytes in s occur once each
NoDuplicates(s) == \A i, j \in 1..Len(s) : i # j => s[i] # s[j]

\* C10: a drain that follows another drain with no appendOutput in between
\* returns empty stdout and stderr, and no byte is returned by two drains.
C10_DrainReturnsOnce ==
    \A id \in Ids :
        /\ (hist[id].quietDrains >= 2 /\ lastPoll[id].kind = "live") =>
                (lastPoll[id].stdout = <<>> /\ lastPoll[id].stderr = <<>>)
        /\ NoDuplicates(hist[id].drained)

\* bytes were drained, and then two drains followed without an append
C10_Witness ==
    \E id \in Ids :
        /\ hist[id].quietDrains >= 2
        /\ lastPoll[id].kind = "live"
        /\ Len(hist[id].drained) >= 2

----------------------------------------------------------------------------
(* Properties of draining and polling *)

Range(s) == {s[i] : i \in 1..Len(s)}

\* the chunks and the bytes waiting in the pending buffers of a session object
PendingChunks(s) == Range(s.pendingStdout) \cup Range(s.pendingStderr)
PendingBytes(s) == Concat(s.pendingStdout) \o Concat(s.pendingStderr)

\* C11: the bytes returned by all drains so far plus the bytes still pending
\* are exactly the bytes ever enqueued, each once; and a pending chunk is, after
\* any step, either still pending as a whole or returned as a whole.
C11_PendingConserved ==
    /\ [](\A id \in Ids :
            /\ Len(hist[id].drained) + Len(PendingBytes(session[id])) = os[id].received
            /\ Range(hist[id].drained \o PendingBytes(session[id])) = 1..os[id].received)
    /\ [][\A id \in Ids : \A chunk \in PendingChunks(session[id]) :
            \/ chunk \in PendingChunks(session'[id])
            \/ /\ Range(chunk) \subseteq Range(hist'[id].drained)
               /\ Range(chunk) \cap Range(PendingBytes(session'[id])) = {}]_vars

\* bytes were drained and chunks of both streams are pending again
C11_Witness ==
    \E id \in Ids :
        /\ Len(hist[id].drained) >= 1
        /\ session[id].pendingStdout # <<>>
        /\ session[id].pendingStderr # <<>>
        /\ \E chunk \in PendingChunks(session[id]) : Len(chunk) >= 2

\* C12: a poll answered from the finished set returns, in its text or in
\* details.aggregated, every byte that is still pending; stated for pty
\* sessions, where nothing arrives after the exit, so that every pending byte
\* was enqueued before the exit and not drained by an earlier poll.
C12_PollAfterExitReturnsPending ==
    \A id \in Ids :
        (lastPoll[id].kind = "finished" /\ session[id].stdinMode = "pty")
            => Range(PendingBytes(session[id]))
                    \subseteq Range(lastPoll[id].text) \cup Range(lastPoll[id].aggregated)

----------------------------------------------------------------------------
(* Properties of the race between yield, timeout, cancel and exit *)

\* C13: a call started with background = true has the "running" result, for a
\* session registered under its id and marked backgrounded, in every state from
\* the step that starts it: no timer is armed for it and no later event,
\* the exit of the process included, changes the result.
C13_BackgroundReturnsRunning ==
    \A id \in Ids :
        call[id].phase = "open"
            => /\ call[id].settled
               /\ call[id].result = "running"
               /\ ~call[id].yieldTimer
               /\ session[id].created
               /\ session[id].backgrounded
               /\ id \in running \cup finished \cup deleted

\* the command of a background call has exited with code 0
C13_Witness ==
    \E id \in Ids :
        /\ call[id].result = "running"
        /\ os[id].proc = "exited"
        /\ session[id].exitCode = 0
        /\ session[id].status = "completed"

\* the timeout timer has fired while the process was alive and the call unsettled
TimedOutPending(id) ==
    call[id].timedOut /\ ~call[id].settled /\ os[id].proc = "alive"

\* C14: when the timeout timer fires on a live process and an unsettled call,
\* the process is killed, the settlement that follows is the failure "Command
\* timed out after N seconds" with N the effective timeout, and the exit is
\* recorded with status failed; with a timeout <= 0 the timer is never armed.
C14_TimeoutFails ==
    /\ [](\A id \in Ids :
            call[id].effectiveTimeout <= 0
                => ~call[id].timeoutTimer /\ ~call[id].timedOut)
    /\ [][\A id \in Ids :
            /\ (~call[id].timedOut /\ TimedOutPending(id)') => os'[id].killed
            /\ (TimedOutPending(id) /\ call'[id].settled)
                    => /\ call'[id].result = "failed"
                       /\ call'[id].reason =
                            [NoReason EXCEPT !.text = "Command timed out after",
                                             !.seconds = call[id].effectiveTimeout]
            /\ (TimedOutPending(id) /\ session'[id].exited)
                    => session'[id].status = "failed"]_vars

\* C15: a call whose cancel signal is aborted while it is unsettled, or is
\* already aborted when execute starts, is settled as a failure: no step
\* settles it as "running".
C15_AbortedNeverRunning ==
    [][\A id \in Ids :
        (/\ ~call[id].settled
         /\ call'[id].settled
         /\ call'[id].signal = "aborted"
         /\ (call[id].signal = "aborted" \/ call[id].phase = "idle"))
            => call'[id].result \in {"failed", "error"}]_vars

\* C16: a session moves from the live set to the finished set only in a step
\* in which the OS reports the end of the process (the exit event, or the error
\* event of a failed spawn), whatever has invoked the abort path before.
C16_FinishedOnlyOnOsExit ==
    [][\A id \in Ids :
        (id \in running /\ id \in finished')
            => /\ os'[id].proc # os[id].proc
               /\ os'[id].proc \in {"exited", "errored"}]_vars

\* the reason r is the one the priority order gives for a run that timed out
\* or not, with effective timeout n, exit code `code` and exit signal sig; a
\* process died by signal when a signal other than the number 0 is reported
ReasonMatches(r, timedOut, n, code, sig) ==
    LET bySignal == sig # NULL /\ sig # "0"
    IN  /\ timedOut
            => r = [NoReason EXCEPT !.text = "Command timed out after", !.seconds = n]
        /\ (~timedOut /\ bySignal)
            => r = [NoReason EXCEPT !.text = "Command aborted by signal", !.signal = sig]
        /\ (~timedOut /\ ~bySignal /\ code = NONE)
            => r = [NoReason EXCEPT
                        !.text = "Command aborted before exit code was captured"]
        /\ (~timedOut /\ ~bySignal /\ code # NONE)
            => r = [NoReason EXCEPT !.text = "Command exited with code", !.code = code]

\* C17: the reason of a failure is chosen in the order timeout, signal, missing
\* exit code, exit code: for every combination of the inputs of the choice, and
\* in every step that rejects a call, for the exit recorded in that step.
C17_ReasonPriority ==
    /\ [](\A timedOut \in BOOLEAN, n \in {0, 1, DEFAULT_TIMEOUT_SEC},
             code \in {NONE, 0, 1}, sig \in {NULL, "SIGTERM", "SIGKILL", "0", "9"} :
            ReasonMatches(failureReason(timedOut, n, code, sig), timedOut, n, code, sig))
    /\ [][\A id \in Ids :
            (~call[id].settled /\ call'[id].settled /\ call'[id].result = "failed")
                => ReasonMatches(call'[id].reason, call[id].timedOut,
                                 call[id].effectiveTimeout,
                                 session'[id].exitCode, session'[id].exitSignal)]_vars

\* a run that timed out and was killed by a signal is rejected with the timeout
C17_Witness ==
    \E id \in Ids :
        /\ call[id].result = "failed"
        /\ call[id].timedOut
        /\ session[id].exitSignal = "SIGKILL"
        /\ ~session[id].backgrounded
        /\ call[id].reason.text = "Command timed out after"

\* the step reports the exit of the process of id with code 0 and no signal
ExitsCleanly(id) ==
    /\ os[id].proc # "exited"
    /\ os'[id].proc = "exited"
    /\ session'[id].exitCode = 0
    /\ session'[id].exitSignal = NULL

----------------------------------------------------------------------------
(* Properties of the PTY backend *)

\* C19: when the call has fallen back from pty to pipe mode, the session runs
\* in pipe mode and the last progress update and the settlement of the call,
\* whether a running result, a success or a failure, carry the warning.
C19_FallbackWarningEverywhere ==
    \A id \in Ids :
        call[id].warning
            => /\ session[id].stdinMode = "pipe"
               /\ call[id].update # "none" => call[id].update = "warned"
               /\ call[id].settled => call[id].warned

RECURSIVE SumLoads(_)
SumLoads(S) ==
    IF S = {} THEN 0
    ELSE LET id == CHOOSE x \in S : TRUE
         IN  hist[id].loads + SumLoads(S \ {id})

\* C20: over all calls the import of the PTY backend is started at most once;
\* its outcome, loaded or failed, never changes afterwards, and every call in
\* pty mode proceeds with that outcome: pipe mode with the warning after a
\* failed load, and no second import.
C20_PtyLoadedOnce ==
    /\ [](/\ SumLoads(Ids) <= 1
          /\ ptyModule # "unloaded" => SumLoads(Ids) = 1
          /\ \A id \in Ids :
                (call[id].phase = "open" /\ ptyModule = "failed")
                    => session[id].stdinMode = "pipe" /\ call[id].warning)
    /\ [][/\ ptyModule # "unloaded" => ptyModule' # "unloaded"
          /\ ptyModule \in {"loaded", "failed"} => ptyModule' = ptyModule]_vars

\* two pty-mode calls have run on one failed import, the second of them
\* started after the import had failed
C20_Witness ==
    /\ ptyModule = "failed"
    /\ \A id \in Ids : call[id].phase = "open" /\ call[id].warning
    /\ \E id \in Ids : hist[id].loads = 0 /\ os[id].proc = "alive"
    /\ \E id \in Ids : hist[id].loads = 1 /\ os[id].proc = "exited"

----------------------------------------------------------------------------
(* Properties of the process tool *)

\* the step is a reply of the process action `action` about id
Replies(id, action) ==
    lastPoll'[id] # lastPoll[id] /\ lastPoll'[id].kind = action

\* C21: a kill on a live backgrounded session kills the process and records
\* the exit with signal SIGKILL and status failed; a kill on a live session
\* that is not backgrounded leaves the process, the session and both sets as
\* they were.
C21_KillOnlyBackgrounded ==
    [][\A id \in Ids :
        (Replies(id, "kill") /\ id \in running)
            => IF session[id].backgrounded
               THEN /\ os[id].proc = "alive" => os'[id].killed
                    /\ session'[id].exited
                    /\ session'[id].exitCode = NONE
                    /\ session'[id].exitSignal = "SIGKILL"
                    /\ session'[id].status = "failed"
               ELSE /\ os' = os
                    /\ session' = session
                    /\ running' = running
                    /\ finished' = finished]_vars

\* a kill has been refused on a live session that is not backgrounded
C21_Witness ==
    \E id \in Ids :
        /\ lastPoll[id].kind = "kill"
        /\ lastPoll[id].message = "is not backgrounded"
        /\ id \in running
        /\ os[id].proc = "alive"
        /\ ~os[id].killed

\* C22: after a remove on a session of the live or of the finished set the
\* session is in neither set, and the process of a live session was killed.
C22_RemoveDeletes ==
    [][\A id \in Ids :
        (Replies(id, "remove") /\ id \in running \cup finished)
            => /\ id \notin running'
               /\ id \notin finished'
               /\ (id \in running /\ os[id].proc = "alive") => os'[id].killed]_vars

\* C23: a clear deletes the session when it is in the finished set; on a live
\* session or an unknown id it replies with a failure and leaves both sets and
\* the session as they were.
C23_ClearOnlyFinished ==
    [][\A id \in Ids :
        Replies(id, "clear")
            => IF id \in finished
               THEN /\ lastPoll'[id].status = "completed"
                    /\ id \notin running' \cup finished'
               ELSE /\ lastPoll'[id].status = "failed"
                    /\ running' = running
                    /\ finished' = finished
                    /\ session' = session]_vars

\* a clear has been refused on a live session
C23_Witness ==
    \E id \in Ids :
        /\ lastPoll[id].kind = "clear"
        /\ lastPoll[id].status = "failed"
        /\ id \in running

\* the step is a reply of the poll action about id
PollReplies(id) ==
    /\ lastPoll'[id] # lastPoll[id]
    /\ lastPoll'[id].kind \in {"live", "finished", "notfound", "notbackgrounded"}

\* C24: a poll on a registered session that is not backgrounded, live or
\* finished, is refused with status failed and the message "is not
\* backgrounded".
C24_PollNeedsBackgrounded ==
    [][\A id \in Ids :
        (PollReplies(id) /\ id \in running \cup finished /\ ~session[id].backgrounded)
            => /\ lastPoll'[id].status = "failed"
               /\ lastPoll'[id].message = "is not backgrounded"]_vars

\* C25: a step that replies with a state conflict ("is not backgrounded",
\* "stdin is not writable") changes nothing but the reply: no buffer is
\* drained, nothing is written or killed, no exit is recorded; and no reply of
\* log changes the session or the history of drains.
C25_ConflictLeavesState ==
    [][\A id \in Ids :
        /\ (/\ lastPoll'[id] # lastPoll[id]
            /\ lastPoll'[id].message \in {"is not backgrounded", "stdin is not writable"})
                => /\ session' = session
                   /\ os' = os
                   /\ hist' = hist
                   /\ running' = running
                   /\ finished' = finished
                   /\ deleted' = deleted
        /\ Replies(id, "log")
                => session' = session /\ hist' = hist]_vars

\* a log has answered for a live session whose pending buffers are not empty
C25_Witness ==
    \E id \in Ids :
        /\ lastPoll[id].kind = "log"
        /\ lastPoll[id].status = "running"
        /\ lastPoll[id].text # <<>>
        /\ PendingBytes(session[id]) # <<>>

----------------------------------------------------------------------------
(* Properties of argument validation *)

\* C26: an execute call that ends at argument validation (it leaves the idle
\* phase without awaiting the PTY backend and without a session) returns a
\* failure result, does not throw, and leaves the session record, the process
\* and the registry untouched.
C26_EmptyCommandIsFailureResult ==
    [][\A id \in Ids :
        (call[id].phase = "idle" /\ call'[id].phase \notin {"idle", "loading", "open"})
            => /\ call'[id].result = "failed"
               /\ call'[id].phase # "thrown"
               /\ session' = session
               /\ os' = os
               /\ running' = running]_vars

\* C27: a call without sessionId fails (status failed) and changes no session,
\* no process and neither registry set when its action is poll, log, write,
\* kill, clear or remove, and succeeds when its action is list.
C27_MissingSessionId ==
    [][lastPoll'[NULL] # lastPoll[NULL]
        => IF lastPoll'[NULL].kind = "list"
           THEN lastPoll'[NULL].status = "completed"
           ELSE /\ lastPoll'[NULL].kind \in ActionsWithId
                /\ lastPoll'[NULL].status = "failed"
                /\ UNCHANGED <<session, os, running, finished, deleted>>]_vars

C27_Witness ==
    /\ lastPoll[NULL].kind = "clear"
    /\ lastPoll[NULL].status = "failed"
    /\ finished # {}

\* C28: write and kill on a session that is not live fail with the "no active
\* session" message, clear on a session that is not finished fails with the
\* "no finished session" message, and a step that answers with any not-found
\* message leaves the sessions, the processes and the registry as they were.
C28_NotFoundMessages ==
    [][\A id \in Ids :
        /\ ((Replies(id, "write") \/ Replies(id, "kill")) /\ id \notin running)
            => /\ lastPoll'[id].status = "failed"
               /\ lastPoll'[id].message = "No active session found"
        /\ (Replies(id, "clear") /\ id \notin finished)
            => /\ lastPoll'[id].status = "failed"
               /\ lastPoll'[id].message = "No finished session found"
        /\ (/\ lastPoll'[id] # lastPoll[id]
            /\ lastPoll'[id].message \in {"No active session found",
                                          "No finished session found",
                                          "No session found"})
            => UNCHANGED <<session, os, running, finished, deleted>>]_vars

C28_Witness ==
    \E id \in Ids :
        /\ lastPoll[id].kind = "write"
        /\ lastPoll[id].message = "No active session found"
        /\ id \in finished

\* stdin of the session takes input: the PTY of a pty session, the pipe of a
\* pipe session while it is neither ended nor destroyed
WritableStdin(id) ==
    IF session[id].stdinMode = "pty" THEN TRUE ELSE os[id].stdin = "open"

\* C29: a write hands something to the transport only when the session is
\* live, backgrounded, not exited and its stdin is writable; a write in any
\* other state hands nothing to the transport and returns a failure result.
C29_WriteOnlyWhenWritable ==
    [][\A id \in Ids :
        LET ready == /\ id \in running
                     /\ session[id].backgrounded
                     /\ ~session[id].exited
                     /\ WritableStdin(id)
        IN  /\ os'[id].written # os[id].written => ready
            /\ (Replies(id, "write") /\ ~ready)
                => /\ os'[id].written = os[id].written
                   /\ lastPoll'[id].status = "failed"]_vars

\* C30: whenever a write hands the end of input to the transport, the data of
\* the same call goes immediately before it and the end of input is the last
\* thing handed over (stdin.end() for a pipe, which is then ended, 0x04 for a
\* PTY); a write that is rejected hands over nothing and does not end stdin.
C30_DataBeforeEof ==
    [][\A id \in Ids :
        LET before == os[id].written
            after == os'[id].written
            n == Len(after)
        IN  /\ after # before
                => /\ n > Len(before)
                   /\ SubSeq(after, 1, Len(before)) = before
                   /\ after[Len(before) + 1] \in DataInputs
                   /\ n <= Len(before) + 2
                   /\ n = Len(before) + 2
                        => after[n] = (IF session[id].stdinMode = "pty"
                                       THEN "\\x04" ELSE "end")
                   /\ (os'[id].stdin = "ended") = (after[n] = "end")
            /\ (Replies(id, "write") /\ lastPoll'[id].status = "rejected")
                => /\ after = before
                   /\ os'[id].stdin # "ended"]_vars

C30_Witness ==
    \E id \in Ids :
        /\ session[id].stdinMode = "pipe"
        /\ lastPoll[id].kind = "write"
        /\ lastPoll[id].status = "rejected"
        /\ os[id].written = <<"text", "text", "end">>

----------------------------------------------------------------------------
(* Properties of log *)

\* the i-th smallest element of a set of numbers
Nth(S, i) == CHOOSE x \in S : Cardinality({y \in S : y <= x}) = i

\* the text with every "\r" that stands before a "\n" left out
Normalized(text) ==
    LET keep == {i \in 1..Len(text) :
                    ~(text[i] = CR /\ i < Len(text) /\ text[i + 1] = LF)}
    IN  [k \in 1..Cardinality(keep) |-> text[Nth(keep, k)]]

\* the lines of a text: the stretches its line feeds end, and what follows the
\* last line feed when that is not empty
LinesOf(text) ==
    LET t == Normalized(text)
        breaks == {i \in 1..Len(t) : t[i] = LF}
        n == Cardinality(breaks) + (IF Len(t) > 0 /\ t[Len(t)] # LF THEN 1 ELSE 0)
        from(k) == IF k = 1 THEN 1 ELSE Nth(breaks, k - 1) + 1
        to(k) == IF k <= Cardinality(breaks) THEN Nth(breaks, k) - 1 ELSE Len(t)
    IN  [k \in 1..n |-> IF from(k) > to(k) THEN <<>> ELSE SubSeq(t, from(k), to(k))]

\* the lines numbered (from 0) lo, lo + 1, ... below lo + limit, in order
Window(lines, lo, limit) ==
    LET idx == {i \in 1..Len(lines) :
                    i - 1 >= lo /\ (limit # NONE => i - 1 < lo + limit)}
    IN  [k \in 1..Cardinality(idx) |-> lines[Nth(idx, k)]]

\* the last `limit` lines
LastLines(lines, limit) ==
    Window(lines, Len(lines) - Min(Max(limit, 0), Len(lines)), NONE)

\* what a log call has to return when its window starts at line `lo`
LogAnswers(text, offset, limit, lo) ==
    LET r == sliceLogLines(text, offset, limit)
        lines == LinesOf(text)
    IN  /\ r.totalLines = Len(lines)
        /\ r.slice = joinLF(IF offset = NONE /\ limit # NONE
                            THEN LastLines(lines, limit)
                            ELSE Window(lines, lo, limit))

\* C31: for the output of every session and every offset and limit, log
\* returns the last `limit` lines when only the limit is given and the lines
\* [offset, offset + limit) otherwise (from line 0 without an offset, to the
\* last line without a limit), joined by line feeds, and totalLines is the
\* number of lines of the output.
C31_LogSlice ==
    \A id \in Ids, offset \in OffsetInputs, limit \in LimitInputs :
        LogAnswers(session[id].aggregated, offset, limit,
                   IF offset = NONE THEN 0 ELSE offset)

\* C31 (amended): as above, with the window starting at line max(0, offset):
\* a negative offset reads `limit` lines from line 0.
C31_LogSliceClamped ==
    \A id \in Ids, offset \in OffsetInputs, limit \in LimitInputs :
        LogAnswers(session[id].aggregated, offset, limit,
                   IF offset = NONE THEN 0 ELSE Max(0, offset))

C31_Witness ==
    \E id \in Ids :
        /\ session[id].aggregated = <<1, CR, LF, 1, LF>>
        /\ lastPoll[id].kind = "log"
        /\ lastPoll[id].text = <<1>>
        /\ lastPoll[id].totalLines = 2

----------------------------------------------------------------------------
(* Properties of retention *)

\* a session leaves the registry in a step that is no reply of the process tool
SweptAway(id) ==
    /\ id \in running \cup finished
    /\ id \notin running' \cup finished'
    /\ lastPoll' = lastPoll

\* C32: the sweep removes a session only if it is in the finished set, a ttl
\* above zero is configured and endedAt + ttl < now; the live set is the same
\* after the sweep.
C32_SweepOnlyExpired ==
    [][\A id \in Ids :
        SweptAway(id)
            => /\ id \in finished
               /\ id \notin running
               /\ jobTtlMs # NONE
               /\ jobTtlMs > 0
               /\ session[id].endedAt + jobTtlMs < now
               /\ running' = running]_vars

C32_Witness ==
    \E id \in Ids :
        /\ id \in deleted
        /\ lastPoll[id].kind \notin {"clear", "remove"}
        /\ session[id].endedAt + jobTtlMs < now

\* C33: under a retention above zero, a finished session whose expiry the
\* clock can pass (endedAt + ttl < MaxTime) leaves the registry at some later
\* time, without any clear or remove.
C33_FinishedEventuallySwept ==
    \A id \in Ids :
        (/\ id \in finished
         /\ jobTtlMs > 0
         /\ session[id].endedAt + jobTtlMs < MaxTime)
            ~> (id \notin running \cup finished)

C33_Witness ==
    \E id \in Ids :
        /\ id \in deleted
        /\ id \notin running \cup finished
        /\ jobTtlMs > 0
        /\ lastPoll[id].kind = "finished"

\* C34: the step that marks a session exited for the first time sets endedAt
\* to the current time and moves the session from the live to the finished
\* set; every later step leaves endedAt as it is, does not put the session
\* back into the live set and does not add it to the finished set again; no
\* session is in both sets.
C34_MarkExitedIdempotent ==
    [][\A id \in Ids :
        /\ (~session[id].exited /\ session'[id].exited)
            => /\ session'[id].endedAt = now
               /\ id \in running /\ id \notin running'
               /\ id \in finished'
        /\ session[id].exited
            => /\ session'[id].exited
               /\ session'[id].endedAt = session[id].endedAt
               /\ id \notin running'
               /\ id \in finished' => id \in finished
        /\ running' \cap finished' = {}]_vars

C34_Witness ==
    \E id \in Ids :
        /\ lastPoll[id].kind \in {"kill", "remove"}
        /\ os[id].proc = "exited"
        /\ session[id].exitCode # NONE
        /\ session[id].endedAt < now

----------------------------------------------------------------------------
(* Properties of output order *)

\* the strings one data event may carry after sanitizing
ChunkInputs == UNION {[1..k -> 1..MaxData] : k \in 0..MaxData}

\* s is increasing: its bytes stand in the order of their arrival
InArrivalOrder(s) == \A i, j \in 1..Len(s) : i < j => s[i] < s[j]

\* C35: the slicer cuts every string into non-empty slices of at most
\* CHUNK_LIMIT characters whose concatenation is the string; aggregated is a
\* prefix of everything the session received, in arrival order (the bytes of a
\* process are numbered 1, 2, ... as they arrive, on stdout and stderr alike);
\* and the chunks waiting in each pending buffer are such slices, in arrival
\* order.
C35_OrderPreserved ==
    /\ \A input \in ChunkInputs :
            LET chunks == chunkString(input, CHUNK_LIMIT)
            IN  /\ \A k \in 1..Len(chunks) :
                        Len(chunks[k]) > 0 /\ Len(chunks[k]) <= CHUNK_LIMIT
                /\ Concat(chunks) = input
    /\ \A id \in Ids :
            /\ session[id].aggregated = [i \in 1..Len(session[id].aggregated) |-> i]
            /\ Len(session[id].aggregated) <= os[id].received
            /\ \A chunk \in PendingChunks(session[id]) :
                    Len(chunk) > 0 /\ Len(chunk) <= CHUNK_LIMIT
            /\ InArrivalOrder(Concat(session[id].pendingStdout))
            /\ InArrivalOrder(Concat(session[id].pendingStderr))

C35_Witness ==
    \E id \in Ids :
        /\ session[id].pendingStdout = <<<<2, 3>>, <<4>>>>
        /\ session[id].pendingStderr = <<<<1>>>>
        /\ session[id].aggregated = <<1, 2>>

----------------------------------------------------------------------------
(* Properties of the transport *)

\* C36: every registered session holds exactly one transport handle, the one
\* its stdinMode names: the PTY handle and no child handle when stdinMode is
\* pty, the child handle and no PTY handle when it is pipe.
C36_OneTransportHandle ==
    \A id \in Ids :
        session[id].created =>
            /\ session[id].stdinMode \in {"pty", "pipe"}
            /\ session[id].stdinMode = "pty" <=> (session[id].pty /\ ~session[id].child)
            /\ session[id].stdinMode = "pipe" <=> (session[id].child /\ ~session[id].pty)

\* a session that fell back from pty to pipe
C36_Witness ==
    \E id \in Ids :
        /\ session[id].created
        /\ call[id].warning
        /\ session[id].stdinMode = "pipe"
        /\ session[id].child

----------------------------------------------------------------------------
(* Properties of late events *)

\* C37: a session that is recorded as exited with status failed keeps the
\* status failed in every later step.
C37_FailedStaysFailed ==
    [][\A id \in Ids :
        (session[id].exited /\ session[id].status = "failed")
            => session'[id].status = "failed"]_vars

\* C38: once a session is recorded as exited, no step resolves its call as
\* still running and no step marks it backgrounded.
C38_NoRunningAfterExited ==
    [][\A id \in Ids :
        session[id].exited
            => /\ (call'[id].result = "running") => (call[id].result = "running")
               /\ session'[id].backgrounded => session[id].backgrounded]_vars

\* C39: killProcessTree is never invoked with the pid of a session whose
\* exit event has been handled.
C39_NoKillAfterExit ==
    \A id \in Ids : ~os[id].lateKill

\* C40: the yield timer leaves the timeout timer of its call as it is; when the
\* timer fires for a backgrounded session whose process is alive, the process
\* is killed and the caller's result stays; a call that returned `running`
\* keeps that result after the timeout; and the session is later exited with
\* status failed and is (or, once cleared, was) in the finished set.
C40_TimeoutAfterBackground ==
    /\ [][\A id \in Ids :
            /\ (/\ call[id].phase = "open"
                /\ ~session[id].backgrounded /\ session'[id].backgrounded)
                => call'[id].timeoutTimer = call[id].timeoutTimer
            /\ (/\ ~call[id].timedOut /\ call'[id].timedOut
                /\ session[id].backgrounded /\ os[id].proc = "alive")
                => /\ os'[id].killed
                   /\ call'[id].result = call[id].result
            /\ (call[id].timedOut /\ call[id].result = "running")
                => call'[id].result = "running"]_vars
    /\ \A id \in Ids :
            (call[id].timedOut /\ session[id].backgrounded /\ os[id].proc = "alive")
                ~> (/\ session[id].exited
                    /\ session[id].status = "failed"
                    /\ id \in finished \cup deleted)

C40_Witness ==
    \E id \in Ids :
        /\ call[id].timedOut
        /\ call[id].result = "running"
        /\ session[id].backgrounded
        /\ os[id].proc = "exited"
        /\ session[id].exitSignal = "SIGKILL"
        /\ session[id].status = "failed"
        /\ id \in finished

====
